---- MODULE Spec2Model ----
(***************************************************************************)
(* State-machine model of the arkive asset service: the crud router with   *)
(* its permission middleware, the asset handlers behind it, the upload     *)
(* handlers and the thumbnail handlers.  One request is in flight at a     *)
(* time; every step is one await point of the Rust code, and the outcome   *)
(* of every external call (auth service, policy service, connection pool,  *)
(* database, object storage) is chosen by the environment.                 *)
(***************************************************************************)
EXTENDS Integers, Sequences, FiniteSets, TLC

(* ------------------------------------------------------------------ *)
(* Value universes                                                      *)
(* ------------------------------------------------------------------ *)

\* SQL NULL / Option::None of a uuid column or field.
NULL == "null"

Users == {"u1", "u2"}
Projects == {"p1"}
ImageIds == {"r1"}
Roles == {"x1", "x2"}
Perms == {"m1"}

\* Strings that Uuid::from_str accepts among the path segments.
Uuids == ImageIds \cup Projects

\* The variants of enum ImageType as they are written in a path or a key.
ImageTypes == {"images", "map_images"}

\* Path segments that are no uuid.
Words == {"update", "delete", "upload", "download", "folder", "bulk", "images"}
Segments == Words \cup Uuids
Methods == {"GET", "POST", "DELETE"}

\* Request paths below the "/assets" nest: one to three segments.
Paths == {<<a>> : a \in Segments}
           \cup (Segments \X Segments)
           \cup (Segments \X Segments \X Segments)

\* Largest number of entity_permissions rows the store is let to hold.
MaxGrants == 2

(* ------------------------------------------------------------------ *)
(* Responses                                                            *)
(* ------------------------------------------------------------------ *)

GenericErrorMessage == "There was an error with your request."

\* Response::builder().status(INTERNAL_SERVER_ERROR).body("There was an error ...")
PlainError == [status |-> 500, kind |-> "text", message |-> GenericErrorMessage]

\* get_client's error value, returned as the response by the handlers.
ClientError == [status |-> 500, kind |-> "text", message |-> "UNAUTHORIZED"]

\* No response at all: the task handling the request panicked.
NoResponse == [status |-> 0, kind |-> "none", message |-> ""]

\* AppResponse values.
AppSuccess(entity, action) == [tag |-> "Success", entity |-> entity, action |-> action]
AppError == [tag |-> "Error", entity |-> "", action |-> ""]
AppAuth == [tag |-> "Auth", entity |-> "", action |-> ""]
AppUnauthorized == [tag |-> "Unauthorized", entity |-> "", action |-> ""]

\* impl IntoResponse for AppResponse
IntoResponse(r) ==
    CASE r.tag = "Success" ->
           [status |-> 200, kind |-> "json", ok |-> TRUE,
            message |-> r.entity \o " successfully " \o r.action \o ".",
            role_access |-> TRUE]
      [] r.tag = "Error" ->
           [status |-> 500, kind |-> "json", ok |-> FALSE,
            message |-> GenericErrorMessage, role_access |-> TRUE]
      [] r.tag = "Auth" ->
           [status |-> 500, kind |-> "json", ok |-> FALSE,
            message |-> "You do not have permission to perform this action.",
            role_access |-> FALSE]
      [] r.tag = "Unauthorized" ->
           [status |-> 401, kind |-> "json", ok |-> FALSE,
            message |-> "UNAUTHORIZED", role_access |-> FALSE]

\* The router's own answers.
NotFound == [status |-> 404, kind |-> "text", message |-> ""]
MethodNotAllowed == [status |-> 405, kind |-> "text", message |-> ""]

(* ------------------------------------------------------------------ *)
(* Routing: crud_routes                                                 *)
(* ------------------------------------------------------------------ *)

\* The route of crud_routes whose pattern the path matches (static segments
\* win over parameters).
Route(path) ==
    CASE Len(path) = 2 /\ path[1] = "update" -> "update_asset"
      [] Len(path) = 2 /\ path[1] = "folder" -> "delete_folder"
      [] Len(path) = 3 /\ path[1] = "download" -> "download_assets"
      [] Len(path) = 3 /\ path[1] = "bulk" /\ path[2] = "delete" -> "bulk_delete_assets"
      [] Len(path) = 3 /\ path[1] # "download"
           /\ ~(path[1] = "bulk" /\ path[2] = "delete") -> "delete_asset"
      [] OTHER -> "not_found"

\* The method each route is registered for.
RouteMethod(route) ==
    CASE route = "update_asset" -> "POST"
      [] route = "delete_asset" -> "DELETE"
      [] route = "delete_folder" -> "DELETE"
      [] route = "download_assets" -> "POST"
      [] route = "bulk_delete_assets" -> "DELETE"
      [] OTHER -> "NONE"

\* The routes wrapped by .layer(from_fn_with_state(state, permission_middleware)).
Gated(route) == route \in {"update_asset", "delete_asset"}

\* ExtractPath of each handler: does the path deserialize into its parameters?
PathExtracts(route, path) ==
    CASE route = "update_asset" -> path[2] \in Uuids
      [] route = "delete_asset" ->
           path[1] \in Uuids /\ path[2] \in ImageTypes /\ path[3] \in Uuids
      [] route = "delete_folder" -> path[2] \in Uuids
      [] route = "download_assets" -> path[2] \in Uuids /\ path[3] \in ImageTypes
      [] route = "bulk_delete_assets" -> path[3] \in ImageTypes
      [] OTHER -> FALSE

\* What runs once the request reaches the route's method router.
Target(method, path) ==
    LET route == Route(path) IN
    IF route = "not_found" THEN "not_found"
    ELSE IF method # RouteMethod(route) THEN "method_not_allowed"
    ELSE IF ~PathExtracts(route, path) THEN "path_rejection"
    ELSE route

(* ------------------------------------------------------------------ *)
(* permission_middleware: the synchronous head                          *)
(* ------------------------------------------------------------------ *)

\* url.contains("/<word>/"): the word is a whole segment followed by another.
ContainsDir(path, word) == \E i \in 1..(Len(path) - 1) : path[i] = word

\* url.contains("<word>"): no segment of the vocabulary holds another word
\* as a substring, so only the segment equal to the word contains it.
ContainsWord(path, word) == \E i \in 1..Len(path) : path[i] = word

\* The match on the url that names the action.
Classify(method, path) ==
    IF ContainsDir(path, "update") THEN "update"
    ELSE IF ContainsDir(path, "delete") \/ method = "DELETE" THEN "delete"
    ELSE IF ContainsWord(path, "upload") THEN "upload"
    ELSE IF ContainsWord(path, "download") THEN "read"
    ELSE "NONE"

Actions == {"read", "update", "delete", "upload"}

\* Uuid::from_str(url.split("/").last())
LastSegment(path) == path[Len(path)]
ParsesAsUuid(s) == s \in Uuids

(* ------------------------------------------------------------------ *)
(* State                                                                *)
(* ------------------------------------------------------------------ *)

VARIABLES
    images,              \* rows of table images
    entity_permissions,  \* rows of table entity_permissions
    objects,             \* keys of the objects held by the bucket
    req,                 \* the request in flight
    prevDeny             \* response of the last request the middleware denied

vars == <<images, entity_permissions, objects, req, prevDeny>>

\* Option<Claims>::None and the claims of a request not yet verified.
NoClaims == [user_id |-> NULL, project_id |-> NULL]

\* PermissionCheckResponse of a request whose policy lookup has not happened.
NoPermissions == [is_project_owner |-> FALSE, role_id |-> NULL, permission_id |-> NULL]

NoDeny == [status |-> 0, kind |-> "none", message |-> "no denial yet"]

\* Option::None and Option::Some(x).
None == <<>>
Some(x) == <<x>>

\* A PermissionUpdateType with no field set: the entry of no transaction.
NoPerm == [related_id |-> NULL, user_id |-> NULL, permission_id |-> NULL, role_id |-> NULL]

\* The permission transaction of the request: its stage, the entry it is
\* for, the table when it began (`before`), the table as the transaction
\* itself sees it (`view`), and what a query of another connection saw of
\* the entry's resource while the transaction was open.
NoTx ==
    [stage |-> "none", perm |-> NoPerm, before |-> {}, view |-> {},
     probed |-> FALSE, seen |-> {}]

\* Query<ThumbnailDimensions> of a request that is no thumbnail request.
NoQuery == [width |-> None, height |-> None]

\* A CookieJar that holds neither an "access" nor a "refresh" cookie.
NoCookies == [access |-> None, refresh |-> None]

Idle ==
    [pc |-> "idle", endpoint |-> "none", target |-> "none", args |-> <<>>,
     mw |-> "none", cause |-> "none", action |-> "none", id |-> NULL,
     claims |-> NoClaims, permissions |-> NoPermissions,
     jar |-> NoCookies, sent |-> None,
     verifyCalls |-> 0, policyCalls |-> 0, storeQueries |-> 0,
     verifyStatus |-> 0, verifyBody |-> "none",
     queryError |-> FALSE, storeFailed |-> FALSE,
     ran |-> "none", effect |-> "none", left |-> 0, apiKey |-> "absent",
     tx |-> NoTx, committed |-> FALSE, deleted |-> {},
     put |-> None, row |-> None, del |-> None, gone |-> {},
     query |-> NoQuery, held |-> TRUE,
     response |-> NoResponse]

Init ==
    /\ images = {}
    /\ entity_permissions = {}
    /\ objects = {}
    /\ req = Idle
    /\ prevDeny = NoDeny


(* ------------------------------------------------------------------ *)
(* External calls: what the environment may answer                      *)
(* ------------------------------------------------------------------ *)

\* Values of the session cookies.
Tokens == {"t1"}

\* Cookie::new(name, value)
Cookie(name, value) == [name |-> name, value |-> value]

\* The cookie jars a request can carry: each of the two cookies is there
\* or not.
CookieJars ==
    [access : {None} \cup {Some(Cookie("access", t)) : t \in Tokens},
     refresh : {None} \cup {Some(Cookie("refresh", t)) : t \in Tokens}]

\* cookie_jar.get(name)
JarGet(jar, name) == jar[name]

\* Option::unwrap_or
UnwrapOr(opt, default) == IF opt = None THEN default ELSE opt[1]

\* Cookie's to_string(): the cookie as it is written in a header,
\* "name=value" (a cookie read from a request has no attributes).
CookieToString(c) == c.name \o "=" \o c.value

\* The map check_auth serializes as the body of the verification call.
VerifyRequestBody(jar) ==
    [access |-> CookieToString(UnwrapOr(JarGet(jar, "access"), Cookie("access", ""))),
     refresh |-> CookieToString(UnwrapOr(JarGet(jar, "refresh"), Cookie("refresh", "")))]

\* Outcome of POST {auth_service}/verify: the send fails, or a response
\* arrives with a status and a body that parses as VerifyJWTResponse or not.
VerifyOutcomes ==
    {[sent |-> FALSE, status |-> 0, parsable |-> FALSE, claims |-> NoClaims]}
      \cup [sent : {TRUE}, status : {200, 401}, parsable : {FALSE}, claims : {NoClaims}]
      \cup [sent : {TRUE}, status : {200, 401}, parsable : {TRUE},
            claims : {NoClaims} \cup [user_id : Users, project_id : Projects]]

\* Mutant of CheckAuth: the status of the response is not looked at.
CheckAuthIgnoringStatus(resp) ==
    IF resp.parsable
    THEN [ok |-> TRUE, claims |-> resp.claims]
    ELSE [ok |-> FALSE, claims |-> NoClaims]

\* check_auth after the send: Ok(VerifyJWTResponse) or Err(UNAUTHORIZED).
CheckAuth(resp) ==
    IF resp.status = 200
    THEN IF resp.parsable
         THEN [ok |-> TRUE, claims |-> resp.claims]
         ELSE [ok |-> FALSE, claims |-> NoClaims]
    ELSE [ok |-> FALSE, claims |-> NoClaims]

\* What the caller of the verification endpoint has seen of its answer.
VerifyBody(out) ==
    IF ~out.sent THEN "none"
    ELSE IF ~out.parsable THEN "garbage"
    ELSE IF out.claims = NoClaims THEN "null"
    ELSE "claims"

\* The request after its call of the verification endpoint: the jar was
\* moved into the call and the map is dropped with it.
Verified(r, out) ==
    [r EXCEPT !.verifyCalls = @ + 1, !.verifyStatus = out.status,
              !.verifyBody = VerifyBody(out),
              !.jar = NoCookies, !.sent = None]

\* The verification call is built from the cookies of the request and sent;
\* the caller waits for the answer.
CheckAuthSend ==
    /\ req.pc = "verify" /\ req.sent = None
    /\ \E jar \in CookieJars :
         req' = [req EXCEPT !.jar = jar, !.sent = Some(VerifyRequestBody(jar))]
    /\ UNCHANGED <<images, entity_permissions, objects, prevDeny>>

\* Outcome of GET {auth_service}/auth/permission/{action}_images.
PolicyOutcomes ==
    {[sent |-> FALSE, parsable |-> FALSE, body |-> NoPermissions]}
      \cup {[sent |-> TRUE, parsable |-> FALSE, body |-> NoPermissions]}
      \cup [sent : {TRUE}, parsable : {TRUE},
            body : [is_project_owner : BOOLEAN,
                    role_id : Roles \cup {NULL},
                    permission_id : Perms \cup {NULL}]]

(* ------------------------------------------------------------------ *)
(* The resolver query of permission_middleware                          *)
(* ------------------------------------------------------------------ *)

\* Mutant of SqlEq: NULL compares equal to NULL.
SqlEqNullsEqual(a, b) == a = b

\* SQL "a = b": true only when neither side is NULL.
SqlEq(a, b) == a # NULL /\ b # NULL /\ a = b

\* An entity_permissions row of all NULLs: the right side of a LEFT JOIN
\* row for an image that has no grant.
NullGrant ==
    [related_id |-> NULL, role_id |-> NULL, user_id |-> NULL, permission_id |-> NULL]

\* FROM images LEFT JOIN entity_permissions ON related_id = images.id
LeftJoin(imgs, grants) ==
    UNION {LET matching == {g \in grants : SqlEq(g.related_id, i.id)}
           IN IF matching = {} THEN {<<i, NullGrant>>}
              ELSE {<<i, g>> : g \in matching} : i \in imgs}

\* The rows the SELECT of the permission check returns.
PermissionCheckRows(imgs, grants, id, user_id, role_id, permission_id) ==
    {row \in LeftJoin(imgs, grants) :
        /\ SqlEq(row[1].id, id)
        /\ \/ SqlEq(row[1].owner_id, user_id)
           \/ SqlEq(row[2].role_id, role_id)
           \/ /\ SqlEq(row[2].user_id, user_id)
              /\ SqlEq(row[2].permission_id, permission_id)
              /\ SqlEq(row[2].related_id, row[1].id)}

\* client.query_opt: an error when the statement fails or returns more
\* than one row, otherwise the row if there is one.
QueryOpt(dbOk, rows) ==
    IF ~dbOk \/ Cardinality(rows) > 1 THEN "err"
    ELSE IF Cardinality(rows) = 1 THEN "some"
    ELSE "none"

\* Mutant of NeedsQuery: the store is asked whoever the caller is.
NeedsQueryAlways(permissions) == permissions.is_project_owner \/ ~permissions.is_project_owner

\* match permissions.is_project_owner: only the false arm queries the store.
NeedsQuery(permissions) == ~permissions.is_project_owner

\* Mutant of ResolverArm: a query that finds no row lets the request pass.
ResolverArmAllowNone(queryResult) ==
    CASE queryResult = "err" -> "panic"
      [] queryResult = "some" -> "allow"
      [] queryResult = "none" -> "allow"

\* The false arm: `if permission_check.is_err() { false; }` discards its
\* value, permission_check.unwrap() panics on an error, is_some() decides.
ResolverArm(queryResult) ==
    CASE queryResult = "err" -> "panic"
      [] queryResult = "some" -> "allow"
      [] queryResult = "none" -> "deny"

\* has_permission, taken on the tables as they are now: the caller is
\* project owner, or the SELECT of the permission check finds a row for the
\* identity and the grant context the middleware holds.
AccessHolds(imgs, grants, r) ==
    \/ r.permissions.is_project_owner
    \/ PermissionCheckRows(imgs, grants, r.id, r.claims.user_id,
                           r.permissions.role_id, r.permissions.permission_id) # {}

(* ------------------------------------------------------------------ *)
(* permission_middleware                                                *)
(* ------------------------------------------------------------------ *)

\* The middleware returns `response` without calling next.run.
Deny(r, cause, response) ==
    [r EXCEPT !.pc = "done", !.mw = "deny", !.cause = cause, !.response = response]

\* A panic inside the request's task: the request gets no response.
Panic(r, cause) ==
    [r EXCEPT !.pc = "done", !.cause = cause, !.response = NoResponse,
              !.mw = IF r.mw = "pending" THEN "panic" ELSE r.mw]

\* next.run(request)
Allow(r) == [r EXCEPT !.pc = "next", !.mw = "allow"]

\* Mutant of MiddlewareHead: an url that names no action is let through.
MiddlewareHeadPassUnknown(r, method, path) ==
    IF ~ParsesAsUuid(LastSegment(path))
    THEN Deny(r, "id", IntoResponse(AppError))
    ELSE [r EXCEPT !.pc = "verify", !.mw = "pending",
                   !.id = LastSegment(path), !.action = Classify(method, path)]

\* From the start of the middleware to its first await: the id is parsed
\* from the last segment and the action is read off the url.
MiddlewareHead(r, method, path) ==
    IF ~ParsesAsUuid(LastSegment(path))
    THEN Deny(r, "id", IntoResponse(AppError))
    ELSE IF Classify(method, path) = "NONE"
    THEN Deny([r EXCEPT !.action = "NONE"], "action", PlainError)
    ELSE [r EXCEPT !.pc = "verify", !.mw = "pending",
                   !.id = LastSegment(path), !.action = Classify(method, path)]

\* The router of crud_routes takes a request: a gated route enters the
\* middleware (whatever the method), any other goes straight to its target.
CrudRequest(method, path) ==
    LET r == [Idle EXCEPT !.endpoint = "crud",
                          !.target = Target(method, path),
                          !.args = IF Target(method, path) = Route(path)
                                      /\ Route(path) # "not_found"
                                   THEN path ELSE <<>>]
    IN IF Gated(Route(path)) THEN MiddlewareHead(r, method, path)
       ELSE [r EXCEPT !.pc = "next"]

ReceiveCrud ==
    /\ req.pc = "idle"
    /\ \E method \in Methods, path \in Paths : req' = CrudRequest(method, path)
    /\ UNCHANGED <<images, entity_permissions, objects, prevDeny>>

\* check_auth(...).await and the two checks on its result.
MwCheckAuth ==
    /\ req.pc = "verify" /\ req.endpoint = "crud" /\ req.sent # None
    /\ \E out \in VerifyOutcomes :
         LET r == Verified(req, out) IN
         req' = IF ~out.sent THEN Panic(r, "verify_transport")
                ELSE IF ~CheckAuth(out).ok THEN Deny(r, "auth", PlainError)
                ELSE IF CheckAuth(out).claims = NoClaims
                THEN Deny(r, "claims", PlainError)
                ELSE [r EXCEPT !.pc = "policy", !.claims = CheckAuth(out).claims]
    /\ UNCHANGED <<images, entity_permissions, objects, prevDeny>>

\* The policy lookup call and the deserialization of its body.
MwPolicyLookup ==
    /\ req.pc = "policy"
    /\ \E out \in PolicyOutcomes :
         LET r == [req EXCEPT !.policyCalls = @ + 1] IN
         req' = IF ~out.sent THEN Deny(r, "policy", PlainError)
                ELSE IF ~out.parsable THEN Deny(r, "policy_body", PlainError)
                ELSE [r EXCEPT !.pc = "client", !.permissions = out.body]
    /\ UNCHANGED <<images, entity_permissions, objects, prevDeny>>

\* get_client(&state.pool).await, then the match on is_project_owner.
MwGetClient ==
    /\ req.pc = "client"
    /\ \E clientOk \in BOOLEAN :
         req' = IF ~clientOk THEN Deny(req, "client", PlainError)
                ELSE IF NeedsQuery(req.permissions)
                THEN [req EXCEPT !.pc = "resolve"]
                ELSE Allow(req)
    /\ UNCHANGED <<images, entity_permissions, objects, prevDeny>>

\* client.query_opt(...).await and the decision.
MwResolve ==
    /\ req.pc = "resolve"
    /\ \E dbOk \in BOOLEAN :
         LET rows == PermissionCheckRows(images, entity_permissions, req.id,
                        req.claims.user_id, req.permissions.role_id,
                        req.permissions.permission_id)
             arm == ResolverArm(QueryOpt(dbOk, rows))
             r == [req EXCEPT !.storeQueries = @ + 1, !.storeFailed = ~dbOk,
                              !.queryError = (QueryOpt(dbOk, rows) = "err")]
         IN req' = CASE arm = "panic" -> Panic(r, "query")
                     [] arm = "allow" -> Allow(r)
                     [] arm = "deny" -> Deny(r, "resolver", IntoResponse(AppAuth))
    /\ UNCHANGED <<images, entity_permissions, objects, prevDeny>>


(* ------------------------------------------------------------------ *)
(* Store and bucket helpers                                             *)
(* ------------------------------------------------------------------ *)

\* format!("assets/{}/{}/{}.webp", project_id, image_type, id)
ObjectKey(project_id, image_type, id) == <<"assets", project_id, image_type, id, ".webp">>

\* Keys that start with format!("assets/{}", project_id).
KeysWithPrefix(objs, project_id) == {k \in objs : k[1] = "assets" /\ k[2] = project_id}

\* The delete_object a handler sends for `key`, and whether it went through.
DeleteObject(key, ok) == Some([key |-> key, ok |-> ok])

\* UPDATE images SET owner_id = $1 WHERE id = $2
SetOwner(imgs, id, owner_id) ==
    {IF i.id = id THEN [i EXCEPT !.owner_id = owner_id] ELSE i : i \in imgs}

\* The generated primary key of an entity_permissions row.  It is made by
\* the database, so it is never the uuid of an image.
GrantId(g) ==
    "grant:" \o g.related_id \o ":" \o g.role_id \o ":" \o g.user_id \o ":" \o g.permission_id

\* DELETE FROM entity_permissions WHERE id = $1
DeleteGrantById(grants, id) == {g \in grants : GrantId(g) # id}

\* INSERT INTO entity_permissions (related_id, role_id) ... ON CONFLICT DO UPDATE
RoleGrant(perm) ==
    [related_id |-> perm.related_id, role_id |-> perm.role_id,
     user_id |-> NULL, permission_id |-> NULL]

\* INSERT INTO entity_permissions (related_id, permission_id, user_id) ... ON CONFLICT DO NOTHING
UserGrant(perm) ==
    [related_id |-> perm.related_id, role_id |-> NULL,
     user_id |-> perm.user_id, permission_id |-> perm.permission_id]

\* Mutant of PermissionShape: the role branch does not look at user_id.
PermissionShapeLoose(perm) ==
    IF perm.role_id # NULL /\ perm.permission_id = NULL THEN "role"
    ELSE IF perm.permission_id # NULL /\ perm.user_id # NULL THEN "user"
    ELSE "skip"

\* Which of the two transactions update_asset runs for an entry, if any.
PermissionShape(perm) ==
    IF perm.role_id # NULL /\ perm.permission_id = NULL /\ perm.user_id = NULL THEN "role"
    ELSE IF perm.permission_id # NULL /\ perm.user_id # NULL THEN "user"
    ELSE "skip"

\* struct PermissionUpdateType, as it deserializes from the payload.
PermissionUpdates ==
    [related_id : ImageIds, user_id : Users \cup {NULL},
     permission_id : Perms \cup {NULL}, role_id : Roles \cup {NULL}]

\* Largest number of entries in one permissions payload.
MaxPermEntries == 2

\* Largest number of named multipart fields in one upload.
MaxFields == 1

\* The permissions field of UpdatePayload: absent, not a JSON list of
\* PermissionUpdateType, or a list of n entries.
PermissionsInputs ==
    [kind : {"absent", "malformed"}, n : {0}] \cup [kind : {"list"}, n : 0..MaxPermEntries]

\* The file field of UpdatePayload and what happens to it.
FileOutcomes == {"absent", "lookup_failed", "decode_failed", "upload_failed", "ok"}

\* The handler returns `response`.
Respond(r, response) == [r EXCEPT !.pc = "done", !.response = response]

\* The body of a handler behind next.run starts: it is given the request,
\* not the claims and permissions the middleware held.
Enter(r, handler) ==
    [r EXCEPT !.ran = handler, !.claims = NoClaims, !.permissions = NoPermissions]

(* ------------------------------------------------------------------ *)
(* Handlers of crud_routes                                              *)
(* ------------------------------------------------------------------ *)

\* The answers given without entering a handler body.
RouterReject ==
    /\ req.pc = "next"
    /\ req.target \in {"not_found", "method_not_allowed", "path_rejection"}
    /\ req' = Respond(Enter(req, "none"),
                      CASE req.target = "not_found" -> NotFound
                        [] req.target = "method_not_allowed" -> MethodNotAllowed
                        [] req.target = "path_rejection" -> IntoResponse(AppError))
    /\ UNCHANGED <<images, entity_permissions, objects, prevDeny>>

\* update_asset up to the permissions loop.
UpdateAssetResult(r, id, clientOk, title, owner_id, updateOk, file, permissions) ==
    LET updated == IF owner_id # NULL THEN SetOwner(images, id, owner_id) ELSE images
        row == {i \in updated : i.id = id}
        key == IF row = {} THEN <<>>
               ELSE LET i == CHOOSE j \in row : TRUE
                    IN ObjectKey(i.project_id, i.type, id)
        same == [images |-> images, objects |-> objects]
    IN IF ~clientOk THEN same @@ [req |-> Respond(r, ClientError)]
       ELSE IF (title \/ owner_id # NULL) /\ ~updateOk
       THEN same @@ [req |-> Respond(r, IntoResponse(AppError))]
       ELSE IF file # "absent" /\ (file # "ok" \/ row = {})
       THEN [images |-> updated, objects |-> objects,
             req |-> Respond(r, IntoResponse(AppError))]
       ELSE [images |-> updated,
             objects |-> IF file = "ok" THEN objects \cup {key} ELSE objects,
             req |-> CASE permissions.kind = "absent" ->
                            Respond(r, IntoResponse(AppSuccess("Image", "updated")))
                       [] permissions.kind = "malformed" -> Panic(r, "permissions_json")
                       [] permissions.kind = "list" /\ permissions.n = 0 ->
                            Respond(r, IntoResponse(AppSuccess("Image", "updated")))
                       [] OTHER -> [r EXCEPT !.pc = "perms", !.left = permissions.n]]

\* update_asset behind the middleware.  `held` keeps whether the permission
\* check would still pass when the handler starts.  The outcome of a call
\* is drawn only where the handler gets to make it.
UpdateAsset ==
    /\ req.pc = "next" /\ req.target = "update_asset"
    /\ LET entered == [Enter(req, "update_asset") EXCEPT
                           !.held = AccessHolds(images, entity_permissions, req)]
       IN \E clientOk \in BOOLEAN :
          \E title \in IF clientOk THEN BOOLEAN ELSE {FALSE},
             owner_id \in IF clientOk THEN Users \cup {NULL} ELSE {NULL} :
          \E updateOk \in IF title \/ owner_id # NULL THEN BOOLEAN ELSE {TRUE} :
          \E file \in IF clientOk /\ updateOk THEN FileOutcomes ELSE {"absent"} :
          \E permissions \in IF clientOk /\ updateOk /\ file \in {"absent", "ok"}
                             THEN PermissionsInputs
                             ELSE {[kind |-> "absent", n |-> 0]} :
            LET res == UpdateAssetResult(entered, req.args[2],
                          clientOk, title, owner_id, updateOk, file, permissions)
            IN /\ images' = res.images
               /\ objects' = res.objects
               /\ req' = res.req
    /\ UNCHANGED <<entity_permissions, prevDeny>>

\* The row the transaction of an entry inserts.
GrantRow(perm) ==
    IF PermissionShape(perm) = "role" THEN RoleGrant(perm) ELSE UserGrant(perm)

\* entity_permissions after the transaction of an entry has committed.
GrantsAfter(grants, perm) ==
    IF PermissionShape(perm) = "skip" THEN grants
    ELSE DeleteGrantById(grants, perm.related_id) \cup {GrantRow(perm)}

\* Return values of insert_permissions.
ResultOk == [status |-> 0, kind |-> "result", message |-> "Ok(())"]
ResultErr == [status |-> 0, kind |-> "result", message |-> "Err(AppResponse)"]

\* What the function returns when its loop is over.
LoopResult(r) ==
    IF r.target = "update_asset" THEN IntoResponse(AppSuccess("Image", "updated"))
    ELSE ResultOk

\* The end of one iteration of `for perm in permissions`.
NextEntry(r) ==
    IF r.left = 1 THEN Respond([r EXCEPT !.left = 0], LoopResult(r))
    ELSE [r EXCEPT !.pc = "perms", !.left = @ - 1]

\* The transaction is dropped without a commit: the database rolls it back.
RolledBack(r) ==
    [r EXCEPT !.tx.stage = "rolled_back", !.tx.view = {},
              !.tx.probed = FALSE, !.tx.seen = {}]

\* A statement or the commit of the transaction failed: update_asset logs
\* the error and goes on with the next entry, insert_permissions returns it.
StepFailed(r) ==
    IF r.target = "update_asset"
    THEN NextEntry([RolledBack(r) EXCEPT !.cause = "permission_sync"])
    ELSE Respond(RolledBack(r), ResultErr)

\* One entry of the list is taken: the shape test, get_client and
\* client.transaction().await.unwrap().
PermissionEntry ==
    /\ req.pc = "perms" /\ req.target \in {"update_asset", "insert_permissions"}
    /\ \E perm \in PermissionUpdates :
       \E clientOk \in IF PermissionShape(perm) = "skip" THEN {TRUE} ELSE BOOLEAN :
       \E beginOk \in IF PermissionShape(perm) = "skip" \/ ~clientOk
                      THEN {TRUE} ELSE BOOLEAN :
         LET r == [req EXCEPT !.tx = [NoTx EXCEPT !.before = entity_permissions]] IN
         /\ Cardinality(GrantsAfter(entity_permissions, perm)) <= MaxGrants
         /\ req' = IF PermissionShape(perm) = "skip" THEN NextEntry([r EXCEPT !.tx = NoTx])
                   ELSE IF ~clientOk
                   THEN IF r.target = "update_asset"
                        THEN Respond([r EXCEPT !.cause = "permission_client",
                                               !.tx.stage = "not_begun"],
                                     IntoResponse(AppSuccess("Image", "updated")))
                        ELSE Respond([r EXCEPT !.tx.stage = "not_begun"], ResultErr)
                   ELSE IF ~beginOk
                   THEN Panic([r EXCEPT !.tx.stage = "not_begun"], "transaction")
                   ELSE [r EXCEPT !.pc = "tx",
                                  !.tx = [stage |-> "begun", perm |-> perm,
                                          before |-> entity_permissions,
                                          view |-> entity_permissions,
                                          probed |-> FALSE, seen |-> {}]]
    /\ UNCHANGED <<images, entity_permissions, objects, prevDeny>>

\* transaction.execute("DELETE FROM entity_permissions WHERE id = $1", [related_id])
TxDelete ==
    /\ req.pc = "tx" /\ req.tx.stage = "begun"
    /\ \E ok \in BOOLEAN :
         req' = IF ok
                THEN [req EXCEPT !.tx.stage = "deleted",
                                 !.tx.view = DeleteGrantById(@, req.tx.perm.related_id)]
                ELSE StepFailed(req)
    /\ UNCHANGED <<images, entity_permissions, objects, prevDeny>>

\* transaction.execute("INSERT INTO entity_permissions ...")
TxInsert ==
    /\ req.pc = "tx" /\ req.tx.stage = "deleted"
    /\ \E ok \in BOOLEAN :
         req' = IF ok
                THEN [req EXCEPT !.tx.stage = "inserted",
                                 !.tx.view = @ \cup {GrantRow(req.tx.perm)}]
                ELSE StepFailed(req)
    /\ UNCHANGED <<images, entity_permissions, objects, prevDeny>>

\* transaction.commit().await: the writes of the transaction reach the
\* table all at once, or not at all.  `committed` keeps that an entry of the
\* list in hand has been committed.
TxCommit ==
    /\ req.pc = "tx" /\ req.tx.stage = "inserted"
    /\ \E ok \in BOOLEAN :
         IF ok
         THEN /\ entity_permissions' = req.tx.view
              /\ req' = NextEntry([req EXCEPT !.tx.stage = "committed", !.tx.view = {},
                                              !.tx.probed = FALSE, !.tx.seen = {},
                                              !.committed = TRUE])
         ELSE /\ req' = StepFailed(req)
              /\ UNCHANGED entity_permissions
    /\ UNCHANGED <<images, objects, prevDeny>>

\* The entity_permissions rows that the LEFT JOIN of the permission check
\* pairs with the image `id`.
JoinedGrants(imgs, grants, id) ==
    {row[2] : row \in LeftJoin({i \in imgs : i.id = id}, grants)}

\* Mutant of Visible: the statements of an open transaction are seen by
\* the other connections at once.
VisibleUncommitted(committed, view) == view

\* What a statement of another connection reads of the table while a
\* transaction is open: the committed rows.
Visible(committed, view) == committed

\* The permission check of another request runs its query while the
\* transaction is open.
ConcurrentResolve ==
    /\ req.pc = "tx" /\ ~req.tx.probed
    /\ req' = [req EXCEPT !.tx.probed = TRUE,
                          !.tx.seen = JoinedGrants(images,
                                         Visible(entity_permissions, req.tx.view),
                                         req.tx.perm.related_id)]
    /\ UNCHANGED <<images, entity_permissions, objects, prevDeny>>

\* insert_permissions(permissions, state), called with any permissions
\* value.
InsertPermissions ==
    /\ req.pc = "idle"
    /\ \E permissions \in PermissionsInputs :
         LET r == [Idle EXCEPT !.endpoint = "internal", !.target = "insert_permissions",
                               !.ran = "insert_permissions"]
         IN req' = CASE permissions.kind = "absent" -> Respond(r, ResultOk)
                     [] permissions.kind = "malformed" -> Panic(r, "permissions_json")
                     [] permissions.kind = "list" /\ permissions.n = 0 -> Respond(r, ResultOk)
                     [] OTHER -> [r EXCEPT !.pc = "perms", !.left = permissions.n]
    /\ UNCHANGED <<images, entity_permissions, objects, prevDeny>>

\* delete_asset: the object is deleted first (a failure is only logged),
\* then the row.  The request keeps the delete_object it sent (`del`) and
\* the objects that left the bucket (`gone`).
DeleteAsset ==
    /\ req.pc = "next" /\ req.target = "delete_asset"
    /\ \E clientOk \in BOOLEAN, objectOk \in BOOLEAN, deleteOk \in BOOLEAN :
         LET key == ObjectKey(req.args[1], req.args[2], req.args[3])
             entered == [Enter(req, "delete_asset") EXCEPT
                            !.held = AccessHolds(images, entity_permissions, req)]
             r == [entered EXCEPT !.del = DeleteObject(key, objectOk),
                                  !.gone = IF objectOk THEN objects \cap {key} ELSE {}]
         IN IF ~clientOk
            THEN /\ req' = Respond(entered, ClientError)
                 /\ UNCHANGED <<images, objects>>
            ELSE /\ objects' = IF objectOk THEN objects \ {key} ELSE objects
                 /\ images' = IF deleteOk THEN {i \in images : i.id # req.args[3]}
                              ELSE images
                 /\ req' = IF deleteOk
                           THEN Respond([r EXCEPT !.deleted =
                                             {i.id : i \in {j \in images : j.id = req.args[3]}}],
                                        IntoResponse(AppSuccess("Image", "deleted")))
                           ELSE Respond(r, IntoResponse(AppError))
    /\ UNCHANGED <<entity_permissions, prevDeny>>

\* Between the permission check of the request in flight and its handler,
\* the update_asset of another request (one the middleware allowed for its
\* own caller, a project owner say) commits its UPDATE of owner_id.
ConcurrentUpdateAsset ==
    /\ req.pc = "next" /\ req.mw = "allow"
    /\ \E i \in images, owner_id \in Users :
         /\ owner_id # i.owner_id
         /\ images' = SetOwner(images, i.id, owner_id)
    /\ UNCHANGED <<entity_permissions, objects, req, prevDeny>>

\* In the same window the delete_asset of another request deletes the
\* object and the row of an image.
ConcurrentDeleteAsset ==
    /\ req.pc = "next" /\ req.mw = "allow"
    /\ \E i \in images :
         /\ images' = {j \in images : j.id # i.id}
         /\ objects' = objects \ {ObjectKey(i.project_id, i.type, i.id)}
    /\ UNCHANGED <<entity_permissions, req, prevDeny>>

\* bulk_delete_assets: rows first, then the objects of the rows deleted
\* (the result of delete_objects is dropped).
BulkDeleteAssets ==
    /\ req.pc = "next" /\ req.target = "bulk_delete_assets"
    /\ \E clientOk \in BOOLEAN, deleteOk \in BOOLEAN, objectsOk \in BOOLEAN,
          ids \in SUBSET ImageIds, project_id \in Projects :
         LET r == Enter(req, "bulk_delete_assets")
             deleted_ids == {i.id : i \in {j \in images : j.id \in ids}}
         IN IF ~clientOk
            THEN /\ req' = Respond(r, ClientError)
                 /\ UNCHANGED <<images, objects>>
            ELSE IF ~deleteOk
            THEN /\ req' = Respond(r, IntoResponse(AppError))
                 /\ UNCHANGED <<images, objects>>
            ELSE /\ images' = {i \in images : i.id \notin ids}
                 /\ objects' = IF objectsOk
                               THEN objects \ {ObjectKey(project_id, req.args[3], id) :
                                                 id \in deleted_ids}
                               ELSE objects
                 /\ req' = Respond([r EXCEPT !.deleted = deleted_ids],
                                   IntoResponse(AppSuccess("Images", "deleted")))
    /\ UNCHANGED <<entity_permissions, prevDeny>>

\* download_assets: reads the objects asked for, changes nothing.
DownloadAssets ==
    /\ req.pc = "next" /\ req.target = "download_assets"
    /\ req' = Respond(Enter(req, "download_assets"),
                      [status |-> 200, kind |-> "json", ok |-> TRUE,
                       message |-> "Assets successfully downloaded.",
                       role_access |-> TRUE])
    /\ UNCHANGED <<images, entity_permissions, objects, prevDeny>>

\* recursive_delete: a failed listing ends the loop and still returns Ok;
\* a failed delete_objects panics on its unwrap.
RecursiveDelete(objs, project_id, listOk, deleteOk) ==
    IF ~listOk \/ KeysWithPrefix(objs, project_id) = {}
    THEN [ok |-> TRUE, objects |-> objs]
    ELSE IF ~deleteOk THEN [ok |-> FALSE, objects |-> objs]
    ELSE [ok |-> TRUE, objects |-> objs \ KeysWithPrefix(objs, project_id)]

\* delete_folder.  A listing that failed inside recursive_delete is kept
\* as the cause "list_objects".
DeleteFolder ==
    /\ req.pc = "next" /\ req.target = "delete_folder"
    /\ \E listOk \in BOOLEAN, objectsOk \in BOOLEAN, clientOk \in BOOLEAN,
          deleteOk \in BOOLEAN :
         LET r == [Enter(req, "delete_folder") EXCEPT
                      !.cause = IF listOk THEN @ ELSE "list_objects"]
             res == RecursiveDelete(objects, req.args[2], listOk, objectsOk)
         IN /\ objects' = res.objects
            /\ IF ~res.ok
               THEN req' = Panic(r, "delete_objects") /\ UNCHANGED images
               ELSE IF ~clientOk
               THEN req' = Respond(r, ClientError) /\ UNCHANGED images
               ELSE IF ~deleteOk
               THEN req' = Respond(r, IntoResponse(AppError)) /\ UNCHANGED images
               ELSE /\ images' = {i \in images : i.project_id # req.args[2]}
                    /\ req' = Respond([r EXCEPT !.deleted =
                                          {i.id : i \in {j \in images :
                                                           j.project_id = req.args[2]}}],
                                      IntoResponse(AppSuccess("Images", "deleted")))
    /\ UNCHANGED <<entity_permissions, prevDeny>>


(* ------------------------------------------------------------------ *)
(* upload_routes: upload_image and upload_user_avatar                   *)
(* ------------------------------------------------------------------ *)

\* Uuid::new_v4(): a uuid that no row and no object carries yet.
FreshIds ==
    ImageIds \ ({i.id : i \in images} \cup {k[4] : k \in objects}
                  \cup {g.related_id : g \in entity_permissions})

\* The request reaches upload_image or upload_user_avatar.
ReceiveUpload ==
    /\ req.pc = "idle"
    /\ \/ \E project_id \in Projects :
            req' = [Idle EXCEPT !.endpoint = "upload", !.target = "upload_image",
                                !.args = <<project_id, "images">>, !.pc = "verify"]
       \/ req' = [Idle EXCEPT !.endpoint = "upload", !.target = "upload_user_avatar",
                              !.pc = "verify"]
    /\ UNCHANGED <<images, entity_permissions, objects, prevDeny>>

\* The head shared by the two upload handlers: check_auth, the two checks
\* on its result, get_client.
UploadHead(r, out, clientOk) ==
    IF ~out.sent THEN Panic(r, "verify_transport")
    ELSE IF ~CheckAuth(out).ok THEN Respond(r, IntoResponse(AppUnauthorized))
    ELSE IF CheckAuth(out).claims = NoClaims THEN Respond(r, IntoResponse(AppUnauthorized))
    ELSE IF ~clientOk THEN Respond(r, ClientError)
    ELSE [r EXCEPT !.pc = "fields", !.claims = CheckAuth(out).claims]

\* upload_image up to its multipart loop.
UploadImageAuth ==
    /\ req.pc = "verify" /\ req.target = "upload_image" /\ req.sent # None
    /\ \E out \in VerifyOutcomes, clientOk \in BOOLEAN, n \in 0..MaxFields :
         LET r == UploadHead(Verified([req EXCEPT !.ran = "upload_image"], out),
                             out, clientOk)
         IN req' = IF r.pc = "fields" /\ n = 0
                   THEN Respond(r, IntoResponse(AppSuccess("Image", "uploaded")))
                   ELSE [r EXCEPT !.left = IF r.pc = "fields" THEN n ELSE 0]
    /\ UNCHANGED <<images, entity_permissions, objects, prevDeny>>

\* What can happen to one multipart field of upload_image.
FieldOutcomes ==
    {"multipart_err", "unnamed", "data_err", "decode_err", "upload_err",
     "insert_err", "insert_err_delete_err", "ok"}

\* The outcomes in which put_object went through.
StoredOutcomes == {"insert_err", "insert_err_delete_err", "ok"}

\* One iteration of upload_image's multipart loop.  The request keeps what
\* the iteration did: the key given to put_object (`put`), the images row
\* inserted (`row`) and the delete_object sent after a failed insert (`del`).
UploadImageField ==
    /\ req.pc = "fields" /\ req.target = "upload_image"
    /\ \E outcome \in FieldOutcomes :
       \E id \in IF outcome \in StoredOutcomes THEN FreshIds ELSE {NULL} :
         LET key == ObjectKey(req.args[1], req.args[2], id)
             inserted == [id |-> id, project_id |-> req.args[1],
                          type |-> req.args[2], owner_id |-> req.claims.user_id]
             r == [req EXCEPT !.left = @ - 1,
                              !.effect = IF outcome = "ok" THEN "uploaded" ELSE @,
                              !.put = IF outcome \in StoredOutcomes THEN Some(key) ELSE None,
                              !.row = IF outcome = "ok" THEN Some(inserted) ELSE None,
                              !.del = CASE outcome = "insert_err" -> DeleteObject(key, TRUE)
                                        [] outcome = "insert_err_delete_err" ->
                                             DeleteObject(key, FALSE)
                                        [] OTHER -> None]
         IN /\ objects' = IF outcome \in {"insert_err_delete_err", "ok"}
                          THEN objects \cup {key} ELSE objects
            /\ images' = IF outcome = "ok" THEN images \cup {inserted} ELSE images
            /\ req' = IF outcome = "multipart_err" THEN Panic(r, "multipart")
                      ELSE IF r.left = 0
                      THEN Respond(r, IntoResponse(AppSuccess("Image", "uploaded")))
                      ELSE r
    /\ UNCHANGED <<entity_permissions, prevDeny>>

\* upload_user_avatar up to the lookup of the user.
UploadAvatarAuth ==
    /\ req.pc = "verify" /\ req.target = "upload_user_avatar" /\ req.sent # None
    /\ \E out \in VerifyOutcomes, clientOk \in BOOLEAN, userOk \in BOOLEAN :
         LET r == UploadHead(Verified([req EXCEPT !.ran = "upload_user_avatar"], out),
                             out, clientOk)
         IN req' = IF r.pc = "fields" /\ ~userOk
                   THEN Respond(r, IntoResponse(AppUnauthorized))
                   ELSE r
    /\ UNCHANGED <<images, entity_permissions, objects, prevDeny>>

\* The rest of upload_user_avatar.  The users table and the avatar objects
\* ("assets/avatars/...") are outside the store modelled here: the upload
\* is recorded on the request.
UploadAvatarFields ==
    /\ req.pc = "fields" /\ req.target = "upload_user_avatar"
    /\ \E multipartOk \in BOOLEAN, uploaded \in BOOLEAN :
         req' = IF ~multipartOk THEN Panic(req, "multipart")
                ELSE Respond([req EXCEPT !.effect = IF uploaded THEN "uploaded" ELSE @],
                             IntoResponse(AppSuccess("Avatar", "uploaded")))
    /\ UNCHANGED <<images, entity_permissions, objects, prevDeny>>

(* ------------------------------------------------------------------ *)
(* upload_gateway_entity and the upload of extension_routes             *)
(* ------------------------------------------------------------------ *)

\* The entity ids a gateway request may name in its path.
EntityIds == Uuids \cup {"e1"}

\* upload_gateway_entity up to its multipart loop: no check of the caller,
\* get_client only.
UploadGatewayEntity ==
    /\ req.pc = "idle"
    /\ \E project_id \in Projects, entity_id \in EntityIds, clientOk \in BOOLEAN,
          n \in 0..MaxFields :
         LET r == [Idle EXCEPT !.endpoint = "upload", !.target = "upload_gateway_entity",
                               !.ran = "upload_gateway_entity",
                               !.args = <<project_id, entity_id>>]
         IN req' = IF ~clientOk THEN Respond(r, ClientError)
                   ELSE IF n = 0
                   THEN Respond(r, IntoResponse(AppSuccess("images", "uploaded")))
                   ELSE [r EXCEPT !.pc = "fields", !.left = n]
    /\ UNCHANGED <<images, entity_permissions, objects, prevDeny>>

\* What can happen to one multipart field of upload_gateway_entity.
GatewayFieldOutcomes ==
    {"multipart_err", "unnamed", "data_err", "decode_err", "upload_err",
     "lookup_err", "lookup_err_delete_err",
     "insert_err", "insert_err_delete_err", "ok"}

\* The outcomes in which the handler sends a delete_object.
GatewayDeleteOutcomes ==
    {"lookup_err", "lookup_err_delete_err", "insert_err", "insert_err_delete_err"}

\* One iteration of upload_gateway_entity's multipart loop: put_object is
\* given the key of entity_id, the row and the delete_object that of the
\* new uuid `id`.
UploadGatewayEntityField ==
    /\ req.pc = "fields" /\ req.target = "upload_gateway_entity"
    /\ \E outcome \in GatewayFieldOutcomes, owner_id \in Users :
       \E id \in IF outcome \in GatewayDeleteOutcomes \cup {"ok"}
                 THEN FreshIds \ {req.args[2]} ELSE {NULL} :
         LET uploaded == ObjectKey(req.args[1], "images", req.args[2])
             named == ObjectKey(req.args[1], "images", id)
             deleteOk == outcome \in {"lookup_err", "insert_err"}
             inserted == [id |-> id, project_id |-> req.args[1],
                          type |-> "images", owner_id |-> owner_id]
             r == [req EXCEPT !.left = @ - 1,
                              !.effect = IF outcome = "ok" THEN "uploaded" ELSE @,
                              !.put = IF outcome \in GatewayDeleteOutcomes \cup {"ok"}
                                      THEN Some(uploaded) ELSE None,
                              !.row = IF outcome = "ok" THEN Some(inserted) ELSE None,
                              !.del = IF outcome \in GatewayDeleteOutcomes
                                      THEN DeleteObject(named, deleteOk) ELSE None]
         IN /\ objects' = IF outcome \in GatewayDeleteOutcomes \cup {"ok"}
                          THEN (objects \cup {uploaded})
                                 \ (IF deleteOk THEN {named} ELSE {})
                          ELSE objects
            /\ images' = IF outcome = "ok" THEN images \cup {inserted} ELSE images
            /\ req' = IF outcome = "multipart_err" THEN Panic(r, "multipart")
                      ELSE IF r.left = 0
                      THEN Respond(r, IntoResponse(AppSuccess("images", "uploaded")))
                      ELSE r
    /\ UNCHANGED <<entity_permissions, prevDeny>>

\* The x-api-key header of a request to the extension upload.
ProjectApiKeys == {"absent", "project_key", "unknown_key"}

\* upload of extension_routes up to its multipart loop: the header, then
\* get_client, then the lookup of the project that has the key.
ExtensionUpload ==
    /\ req.pc = "idle"
    /\ \E api_key \in ProjectApiKeys, clientOk \in BOOLEAN, lookupOk \in BOOLEAN,
          project_id \in Projects, user_id \in Users, n \in 0..MaxFields :
         LET r == [Idle EXCEPT !.endpoint = "extension", !.target = "upload",
                               !.ran = "upload", !.apiKey = api_key]
         IN req' = IF api_key = "absent" THEN Respond(r, IntoResponse(AppUnauthorized))
                   ELSE IF ~clientOk THEN Respond(r, ClientError)
                   ELSE IF api_key # "project_key" \/ ~lookupOk
                   THEN Respond(r, IntoResponse(AppUnauthorized))
                   ELSE IF n = 0 THEN Respond(r, IntoResponse(AppSuccess("", "uploaded")))
                   ELSE [r EXCEPT !.pc = "fields", !.left = n,
                                  !.args = <<project_id, "images", user_id>>]
    /\ UNCHANGED <<images, entity_permissions, objects, prevDeny>>

\* One iteration of the multipart loop of the extension upload: every
\* failure but an unnamed field ends the handler with an error.
ExtensionUploadField ==
    /\ req.pc = "fields" /\ req.target = "upload"
    /\ \E outcome \in FieldOutcomes :
       \E id \in IF outcome \in StoredOutcomes THEN FreshIds ELSE {NULL} :
         LET key == ObjectKey(req.args[1], "images", id)
             inserted == [id |-> id, project_id |-> req.args[1],
                          type |-> "images", owner_id |-> req.args[3]]
             r == [req EXCEPT !.left = @ - 1,
                              !.effect = IF outcome = "ok" THEN "uploaded" ELSE @,
                              !.put = IF outcome \in StoredOutcomes THEN Some(key) ELSE None,
                              !.row = IF outcome = "ok" THEN Some(inserted) ELSE None,
                              !.del = CASE outcome = "insert_err" -> DeleteObject(key, TRUE)
                                        [] outcome = "insert_err_delete_err" ->
                                             DeleteObject(key, FALSE)
                                        [] OTHER -> None]
         IN /\ objects' = IF outcome \in {"insert_err_delete_err", "ok"}
                          THEN objects \cup {key} ELSE objects
            /\ images' = IF outcome = "ok" THEN images \cup {inserted} ELSE images
            /\ req' = IF outcome = "multipart_err" THEN Panic(r, "multipart")
                      ELSE IF outcome \notin {"unnamed", "ok"}
                      THEN Respond(r, IntoResponse(AppError))
                      ELSE IF r.left = 0
                      THEN Respond(r, IntoResponse(AppSuccess("", "uploaded")))
                      ELSE r
    /\ UNCHANGED <<entity_permissions, prevDeny>>

(* ------------------------------------------------------------------ *)
(* get_thumbnail (main.rs and thumbnail_routes)                         *)
(* ------------------------------------------------------------------ *)

\* const PRESIGN_DURATION: Duration = Duration::from_secs(300)
PRESIGN_DURATION == 300

\* The CACHE_CONTROL header value "max-age=<seconds>".
MaxAge(seconds) == [directive |-> "max-age", seconds |-> seconds]

\* (StatusCode::UNAUTHORIZED, [image/webp, max-age=0], "")
ThumbnailUnauthorized ==
    [status |-> 401, kind |-> "empty", message |-> "", cache |-> MaxAge(0)]

\* Text is modelled as a sequence of pieces: single characters where the
\* code works on characters, whole words (a uuid, a literal) elsewhere.

\* Display of a usize: its decimal digits.
DecimalDigits == <<"0", "1", "2", "3", "4", "5", "6", "7", "8", "9">>

RECURSIVE Decimal(_)
Decimal(n) ==
    IF n < 10 THEN <<DecimalDigits[n + 1]>>
    ELSE Decimal(n \div 10) \o <<DecimalDigits[(n % 10) + 1]>>

\* The width and height a query may carry (Option<usize>).
Dims == {7, 200}
DimensionInputs == {None} \cup {Some(n) : n \in Dims}

\* state.thumbnail_secret and state.thumbnail_service_url.  The secret is
\* read from the configuration; each request is taken with either value.
Secrets == {"s1", "s2"}
thumbnail_service_url == "https://thumbnails.example"

\* format!("{}x{}/assets/{}/{}/{}.webp", width, height, project_id, image_type, image_id)
SizedUrl(width, height, project_id, image_type, image_id) ==
    Decimal(width) \o <<"x">> \o Decimal(height)
      \o <<"/", "assets", "/", project_id, "/", image_type, "/", image_id, ".webp">>

\* Number of bytes of a digest in the model (HMAC-SHA512 gives 64, which
\* like 4 leaves one byte after the last group of three).
DigestLen == 4

\* Bytes a digest is made of here: they give every kind of base64 digit,
\* '+' and '/' among them.
Bytes == {0, 251, 255}

\* hmac.finalize().into_bytes(): the digest is whatever HMAC-SHA512 gives
\* for the key and the message; the model lets it be any byte string.
Digests == [1..DigestLen -> Bytes]

\* The alphabet of BASE64_STANDARD.
Base64Alphabet ==
    <<"A", "B", "C", "D", "E", "F", "G", "H", "I", "J", "K", "L", "M",
      "N", "O", "P", "Q", "R", "S", "T", "U", "V", "W", "X", "Y", "Z",
      "a", "b", "c", "d", "e", "f", "g", "h", "i", "j", "k", "l", "m",
      "n", "o", "p", "q", "r", "s", "t", "u", "v", "w", "x", "y", "z",
      "0", "1", "2", "3", "4", "5", "6", "7", "8", "9", "+", "/">>

Base64Digit(sextet) == Base64Alphabet[sextet + 1]

\* BASE64_STANDARD.encode: three bytes give four digits, a last group of
\* one or two bytes is padded with '='.
RECURSIVE Base64Encode(_)
Base64Encode(bytes) ==
    IF Len(bytes) = 0 THEN <<>>
    ELSE IF Len(bytes) = 1
    THEN <<Base64Digit(bytes[1] \div 4), Base64Digit((bytes[1] % 4) * 16), "=", "=">>
    ELSE IF Len(bytes) = 2
    THEN <<Base64Digit(bytes[1] \div 4),
           Base64Digit((bytes[1] % 4) * 16 + bytes[2] \div 16),
           Base64Digit((bytes[2] % 16) * 4), "=">>
    ELSE <<Base64Digit(bytes[1] \div 4),
           Base64Digit((bytes[1] % 4) * 16 + bytes[2] \div 16),
           Base64Digit((bytes[2] % 16) * 4 + bytes[3] \div 64),
           Base64Digit(bytes[3] % 64)>>
           \o Base64Encode(SubSeq(bytes, 4, Len(bytes)))

\* str::replace(from, to) for a single character.
Replace(text, from, to) ==
    [i \in DOMAIN text |-> IF text[i] = from THEN to ELSE text[i]]

\* Mutant of TicketSignature: only '+' is replaced.
TicketSignaturePlusOnly(digest) == Replace(Base64Encode(digest), "+", "-")

\* BASE64_STANDARD.encode(res).replace('+', "-").replace('/', "_")
TicketSignature(digest) ==
    Replace(Replace(Base64Encode(digest), "+", "-"), "/", "_")

\* Mutant of TicketUrl: the url names the object key, without the size.
TicketUrlKeyOnly(base, signature, sized_url) ==
    <<base, "/">> \o signature \o <<"/">>
      \o SubSeq(sized_url, Len(sized_url) - 7, Len(sized_url))

\* format!("{}/{}/{}", thumbnail_service_url, base_64, sized_url)
TicketUrl(base, signature, sized_url) ==
    <<base, "/">> \o signature \o <<"/">> \o sized_url

\* Mutant of TicketMode: a ticket only for a square thumbnail.
TicketModeSquareOnly(width, height) == width # None /\ height # None /\ width = height

\* query.width.is_some() && query.height.is_some()
TicketMode(width, height) == width # None /\ height # None

\* The ticket URL when both dimensions are given, else the presigned URL
\* of the object, valid for PRESIGN_DURATION.  `secret` and `digest` are the
\* key of the HMAC and the bytes it gave; the response keeps them next to
\* the message signed.
ThumbnailUrl(secret, width, height, args, digest) ==
    IF TicketMode(width, height)
    THEN LET sized_url == SizedUrl(width[1], height[1], args[1], args[2], args[3])
         IN [status |-> 200, kind |-> "url", message |-> "ticket",
             cache |-> MaxAge(3600),
             url |-> TicketUrl(thumbnail_service_url, TicketSignature(digest), sized_url),
             key |-> secret, signed |-> sized_url, digest |-> digest,
             width |-> width[1], height |-> height[1]]
    ELSE [status |-> 200, kind |-> "url", message |-> "presigned",
          cache |-> MaxAge(3600), expires_in |-> PRESIGN_DURATION,
          url |-> <<"presigned", "/">> \o ObjectKey(args[1], args[2], args[3])]

\* The request reaches get_thumbnail of main.rs.
ReceiveThumbnail ==
    /\ req.pc = "idle"
    /\ \E project_id \in Projects, image_type \in ImageTypes, image_id \in ImageIds :
         req' = [Idle EXCEPT !.endpoint = "thumbnail", !.target = "get_thumbnail_main",
                             !.args = <<project_id, image_type, image_id>>, !.pc = "verify"]
    /\ UNCHANGED <<images, entity_permissions, objects, prevDeny>>

\* get_thumbnail of main.rs: only the status of the verification is read.
GetThumbnailMain ==
    /\ req.pc = "verify" /\ req.target = "get_thumbnail_main" /\ req.sent # None
    /\ \E out \in VerifyOutcomes, width \in DimensionInputs, height \in DimensionInputs,
          secret \in Secrets, digest \in Digests :
         LET r == Verified([req EXCEPT !.ran = "get_thumbnail_main",
                                       !.query = [width |-> width, height |-> height]],
                           out) IN
         req' = IF ~out.sent THEN Panic(r, "verify_transport")
                ELSE IF out.status # 200 THEN Respond(r, ThumbnailUnauthorized)
                ELSE Respond([r EXCEPT !.effect = "url"],
                             ThumbnailUrl(secret, width, height, req.args, digest))
    /\ UNCHANGED <<images, entity_permissions, objects, prevDeny>>

\* The test `domain_string != discord_service_domain` of thumbnail_routes:
\* both sides are the domain of state.discord_service_url.
SessionCheckNeeded(discord_service_url) == discord_service_url # discord_service_url

\* The X-API-KEY header of a request.
ApiKeyHeaders == {"absent", "service_key", "other_key"}

\* get_thumbnail of thumbnail_routes.  With the session branch never taken
\* the handler has no await before it answers.
GetThumbnailRoutes ==
    /\ req.pc = "idle"
    /\ \E project_id \in Projects, image_type \in ImageTypes, image_id \in ImageIds,
          out \in VerifyOutcomes,
          api_key \in ApiKeyHeaders, width \in DimensionInputs,
          height \in DimensionInputs, secret \in Secrets, digest \in Digests :
         LET r == [Idle EXCEPT !.endpoint = "thumbnail", !.target = "get_thumbnail_routes",
                               !.args = <<project_id, image_type, image_id>>,
                               !.ran = "get_thumbnail_routes", !.apiKey = api_key,
                               !.query = [width |-> width, height |-> height]] IN
         req' = IF SessionCheckNeeded("discord.service")
                THEN LET v == Verified(r, out) IN
                     IF ~out.sent THEN Panic(v, "verify_transport")
                     ELSE IF out.status # 200 THEN Respond(v, ThumbnailUnauthorized)
                     ELSE Respond([v EXCEPT !.effect = "url"],
                                  ThumbnailUrl(secret, width, height, r.args, digest))
                ELSE IF api_key = "other_key" THEN Respond(r, ThumbnailUnauthorized)
                ELSE Respond([r EXCEPT !.effect = "url"],
                             ThumbnailUrl(secret, width, height, r.args, digest))
    /\ UNCHANGED <<images, entity_permissions, objects, prevDeny>>

(* ------------------------------------------------------------------ *)
(* The service                                                          *)
(* ------------------------------------------------------------------ *)

\* The denials of the middleware that come from its checks of the caller.
DenyCauses == {"auth", "claims", "policy", "policy_body", "resolver"}

\* The response has been sent (or the task is gone): the next request.
Finish ==
    /\ req.pc = "done"
    /\ req' = Idle
    /\ prevDeny' = IF req.mw = "deny" /\ req.cause \in DenyCauses
                   THEN req.response ELSE prevDeny
    /\ UNCHANGED <<images, entity_permissions, objects>>

Next ==
    \/ ReceiveCrud
    \/ CheckAuthSend
    \/ MwCheckAuth
    \/ MwPolicyLookup
    \/ MwGetClient
    \/ MwResolve
    \/ RouterReject
    \/ UpdateAsset
    \/ PermissionEntry
    \/ TxDelete
    \/ TxInsert
    \/ TxCommit
    \/ ConcurrentResolve
    \/ DeleteAsset
    \/ BulkDeleteAssets
    \/ DownloadAssets
    \/ DeleteFolder
    \/ ReceiveUpload
    \/ UploadImageAuth
    \/ UploadImageField
    \/ UploadAvatarAuth
    \/ UploadAvatarFields
    \/ Finish

\* The routers under "/assets" and the upload router: the requests that
\* read and write the store.
Spec == Init /\ [][Next]_vars

\* The same with insert_permissions, which no route calls, taken as
\* callable next to the requests.
NextWithInsertPermissions ==
    \/ Next
    \/ InsertPermissions

SpecWithInsertPermissions == Init /\ [][NextWithInsertPermissions]_vars

\* The same as Spec with the requests of other callers that commit while
\* the request in flight waits between its permission check and its handler.
NextWithConcurrentRequests ==
    \/ Next
    \/ ConcurrentUpdateAsset
    \/ ConcurrentDeleteAsset

ConcurrentSpec == Init /\ [][NextWithConcurrentRequests]_vars

\* The two thumbnail routes.  Their handlers touch neither the tables nor
\* the objects, so they are taken on their own.
ThumbnailNext ==
    \/ ReceiveThumbnail
    \/ CheckAuthSend
    \/ GetThumbnailMain
    \/ GetThumbnailRoutes
    \/ Finish

ThumbnailSpec == Init /\ [][ThumbnailNext]_vars

\* The upload handlers: those of the upload router and the upload of
\* extension_routes.
UploadNext ==
    \/ ReceiveUpload
    \/ CheckAuthSend
    \/ UploadImageAuth
    \/ UploadImageField
    \/ UploadAvatarAuth
    \/ UploadAvatarFields
    \/ UploadGatewayEntity
    \/ UploadGatewayEntityField
    \/ ExtensionUpload
    \/ ExtensionUploadField
    \/ Finish

UploadSpec == Init /\ [][UploadNext]_vars


(* ------------------------------------------------------------------ *)
(* Properties                                                           *)
(* ------------------------------------------------------------------ *)

\* The handlers that crud_routes exposes.
CrudHandlers ==
    {"update_asset", "delete_asset", "bulk_delete_assets", "download_assets",
     "delete_folder"}

\* The resolver query of the request in flight has been made and the
\* middleware still holds the identity and the grant context it used.
Resolved ==
    /\ req.endpoint = "crud"
    /\ req.storeQueries = 1
    /\ req.claims # NoClaims
    /\ ~req.permissions.is_project_owner

\* The image the request names exists and belongs to the caller.
CallerOwnsResource ==
    \E i \in images : i.id = req.id /\ i.owner_id = req.claims.user_id

\* A role grant on the resource names the role of the grant context.
RoleGrantMatches ==
    \E g \in entity_permissions :
        /\ g.related_id = req.id
        /\ g.role_id # NULL
        /\ g.role_id = req.permissions.role_id

\* A user grant on the resource names the caller and the permission of the
\* grant context.
UserGrantMatches ==
    \E g \in entity_permissions :
        /\ g.related_id = req.id
        /\ g.user_id # NULL /\ g.user_id = req.claims.user_id
        /\ g.permission_id # NULL /\ g.permission_id = req.permissions.permission_id

\* C1: a handler of crud_routes (update_asset, delete_asset,
\* bulk_delete_assets, download_assets, delete_folder) runs only for a
\* request that permission_middleware allowed.
C1_HandlersRunOnlyAfterAllow ==
    req.ran \in CrudHandlers => req.mw = "allow"

\* C2: when the policy lookup answered is_project_owner = true, the resolver
\* step allows the request, whatever the ids, the grant context and the
\* rows of images and entity_permissions, and makes no query for grants.
C2_ProjectOwnerAllowedWithoutQuery ==
    (/\ req.endpoint = "crud"
     /\ req.permissions.is_project_owner
     /\ req.pc # "client"
     /\ req.cause # "client")
      => (req.mw = "allow" /\ req.pc = "next" /\ req.storeQueries = 0)

\* C2 witness: a project owner is allowed on an id that no image row and no
\* grant would let through, with grants present in the store.
C2_Witness ==
    /\ req.endpoint = "crud" /\ req.pc = "next" /\ req.mw = "allow"
    /\ req.permissions.is_project_owner
    /\ req.permissions.role_id = NULL /\ req.permissions.permission_id = NULL
    /\ req.storeQueries = 0
    /\ entity_permissions # {}
    /\ ~CallerOwnsResource

\* C3: with is_project_owner false, the resolver allows the owner of the
\* resource whatever entity_permissions rows the resource has (none, one
\* or several), the store answering the query.
C3_OwnerAllowedWhateverGrants ==
    (Resolved /\ ~req.storeFailed /\ CallerOwnsResource) => req.mw = "allow"

\* C4: with is_project_owner false, no ownership of the resource (or no
\* such resource), no role grant naming the context's role and no user
\* grant naming the caller and the context's permission, the resolver
\* denies and the handler does not run; an absent role_id or
\* permission_id in the context matches no row.
C4_NoMatchDenied ==
    (/\ Resolved /\ ~req.storeFailed
     /\ ~CallerOwnsResource /\ ~RoleGrantMatches /\ ~UserGrantMatches)
      => (/\ req.pc = "done" /\ req.mw = "deny" /\ req.cause = "resolver"
          /\ req.ran = "none"
          /\ req.response = IntoResponse(AppAuth))

\* C4 witness: a caller whose context names neither role nor permission is
\* denied on an existing resource of another owner that carries grants.
C4_Witness ==
    /\ Resolved /\ req.mw = "deny" /\ req.cause = "resolver"
    /\ req.permissions.role_id = NULL /\ req.permissions.permission_id = NULL
    /\ \E i \in images : i.id = req.id /\ i.owner_id # req.claims.user_id
    /\ \E g \in entity_permissions : g.related_id = req.id

\* C5: when a role grant on an existing resource names the role the policy
\* lookup returned, the middleware allows the request, whatever the other
\* entity_permissions rows of the resource, the store answering the query.
C5_RoleGrantAllowed ==
    (/\ Resolved /\ ~req.storeFailed
     /\ \E i \in images : i.id = req.id
     /\ RoleGrantMatches)
      => req.mw = "allow"

\* C6: when the resolver's query_opt returns an error, the middleware ends
\* in Deny with a response that reports the failure; it never allows.
C6_QueryErrorDenied ==
    (req.endpoint = "crud" /\ req.queryError)
      => (/\ req.mw = "deny"
          /\ req.response \in {PlainError, IntoResponse(AppError)})

\* C7: when the verification call answers with a status other than 200,
\* permission_middleware denies the request and the policy lookup endpoint
\* gets no call for it.
C7_NonOkVerificationDenied ==
    (req.endpoint = "crud" /\ req.verifyStatus \notin {0, 200})
      => (/\ req.pc = "done" /\ req.mw = "deny"
          /\ req.policyCalls = 0 /\ req.storeQueries = 0 /\ req.ran = "none")

\* C7 witness: a request was denied on a 401 of the verification endpoint
\* whose body carried well-formed claims.
C7_Witness ==
    /\ req.endpoint = "crud" /\ req.verifyCalls = 1
    /\ req.verifyStatus = 401 /\ req.verifyBody = "claims"
    /\ req.mw = "deny" /\ req.policyCalls = 0

\* C8: in every caller of the verification endpoint, a 200 answer whose
\* claims are null is handled like an authentication failure: the request
\* is denied and nothing protected happens (no handler behind the
\* middleware, no upload, no URL).
C8_NullClaimsDenied ==
    (req.verifyStatus = 200 /\ req.verifyBody = "null")
      => (/\ req.pc = "done"
          /\ req.mw \in {"none", "deny"}
          /\ req.effect = "none"
          /\ req.response.status \notin {200})

\* C9: permission_middleware makes its external calls only for a request
\* it has mapped to one of read, update, delete, upload; a request whose
\* path and method name no action gets the internal-error response, and
\* neither the auth service, the policy service, the store nor the
\* handler is reached.
C9_UnknownActionRejected ==
    /\ (req.endpoint = "crud"
          /\ (req.verifyCalls + req.policyCalls + req.storeQueries > 0
                \/ req.mw \in {"pending", "allow"}))
         => req.action \in Actions
    /\ req.action = "NONE"
         => (/\ req.pc = "done" /\ req.mw = "deny"
             /\ req.response = PlainError
             /\ req.verifyCalls = 0 /\ req.policyCalls = 0 /\ req.storeQueries = 0
             /\ req.ran = "none")

\* C9 witness: a request on a gated route whose url names no action has
\* been turned away.
C9_Witness ==
    /\ req.endpoint = "crud" /\ req.action = "NONE"
    /\ req.pc = "done" /\ req.cause = "action"
    /\ req.response.status = 500

\* C10: every denial of permission_middleware for an authentication
\* failure, missing claims, a failed policy lookup or a resolver answer of
\* false carries the same response (status and body) as any earlier one.
C10_DenialsIndistinguishable ==
    (/\ req.pc = "done" /\ req.mw = "deny" /\ req.cause \in DenyCauses
     /\ prevDeny # NoDeny)
      => req.response = prevDeny

\* C11: permission_middleware calls next.run only after, in this order, the
\* action was classified, the verification call answered 200 with claims,
\* the policy lookup answered and deserialized, and the resolver step gave
\* true (project owner, or a row found by the query); a policy lookup that
\* fails in transport or in deserialization ends in Deny with no query of
\* the store and no handler run.
C11_HandlerOnlyAfterAllChecks ==
    /\ (req.endpoint = "crud" /\ req.policyCalls > 0)
         => (/\ req.action \in Actions
             /\ req.verifyCalls = 1 /\ req.verifyStatus = 200
             /\ req.verifyBody = "claims")
    /\ (req.endpoint = "crud" /\ req.pc \in {"client", "resolve"})
         => (req.policyCalls = 1 /\ req.storeQueries = 0 /\ req.mw = "pending")
    /\ (req.endpoint = "crud" /\ req.storeQueries > 0)
         => (req.policyCalls = 1 /\ req.cause \notin {"policy", "policy_body"})
    /\ (req.endpoint = "crud" /\ req.mw = "allow")
         => (/\ req.action \in Actions
             /\ req.verifyCalls = 1 /\ req.verifyStatus = 200
             /\ req.verifyBody = "claims"
             /\ req.policyCalls = 1
             /\ req.cause \notin {"policy", "policy_body", "auth", "claims",
                                   "action", "id", "client", "resolver"}
             /\ req.storeQueries \in {0, 1}
             /\ req.storeQueries = 1 => ~req.queryError)
    /\ (req.endpoint = "crud" /\ req.mw = "allow" /\ req.pc = "next")
         => (/\ req.claims # NoClaims
             /\ \/ req.permissions.is_project_owner /\ req.storeQueries = 0
                \/ /\ ~req.permissions.is_project_owner /\ req.storeQueries = 1
                   /\ PermissionCheckRows(images, entity_permissions, req.id,
                          req.claims.user_id, req.permissions.role_id,
                          req.permissions.permission_id) # {})
    /\ (req.endpoint = "crud" /\ req.ran \in {"update_asset", "delete_asset"})
         => req.mw = "allow"
    /\ req.cause \in {"policy", "policy_body"}
         => (/\ req.pc = "done" /\ req.mw = "deny" /\ req.response = PlainError
             /\ req.policyCalls = 1 /\ req.storeQueries = 0 /\ req.ran = "none")

\* C11 witness: a request that is no project owner's was let through to
\* its handler after one verification, one policy lookup and one query.
C11_Witness ==
    /\ req.endpoint = "crud" /\ req.ran = "update_asset" /\ req.mw = "allow"
    /\ req.verifyCalls = 1 /\ req.policyCalls = 1 /\ req.storeQueries = 1

\* C12: the body of the verification call always carries both keys, and
\* for a session cookie the request does not have, the value sent under its
\* key is the empty string.
C12_AbsentCookiesSentEmpty ==
    req.sent # None
      => (/\ DOMAIN req.sent[1] = {"access", "refresh"}
          /\ JarGet(req.jar, "access") = None => req.sent[1].access = ""
          /\ JarGet(req.jar, "refresh") = None => req.sent[1].refresh = "")

\* The request in flight was answered with a ticket URL.
TicketIssued ==
    /\ req.pc = "done" /\ req.endpoint = "thumbnail"
    /\ req.response.status = 200 /\ req.response.message = "ticket"

\* The pieces of a ticket URL between its first and its second '/'.
SignatureSegment(url) ==
    LET end == CHOOSE k \in 3..Len(url) :
                   url[k] = "/" /\ \A j \in 3..(k - 1) : url[j] # "/"
    IN SubSeq(url, 3, end - 1)

\* C13: in ticket mode get_thumbnail answers with the URL
\* {thumbnail_service_url}/{sig}/{w}x{h}/assets/{P}/{T}/{I}.webp, where the
\* message given to the HMAC (keyed by the configured secret) is exactly
\* the text {w}x{h}/assets/{P}/{T}/{I}.webp that ends the URL, and sig is
\* the url-safe base64 of the digest.
C13_TicketUrlSignsItsPath ==
    TicketIssued =>
      LET resp == req.response
          path == Decimal(resp.width) \o <<"x">> \o Decimal(resp.height)
                    \o <<"/", "assets", "/", req.args[1], "/", req.args[2], "/",
                         req.args[3], ".webp">>
          sig == SubSeq(resp.url, 3, Len(resp.url) - Len(path) - 1)
      IN /\ resp.signed = path
         /\ resp.key \in Secrets
         /\ Len(resp.url) > Len(path) + 3
         /\ resp.url = <<thumbnail_service_url, "/">> \o sig \o <<"/">> \o path
         /\ Len(sig) = Len(Base64Encode(resp.digest))
         /\ \A i \in 1..Len(sig) :
              sig[i] = CASE Base64Encode(resp.digest)[i] = "+" -> "-"
                         [] Base64Encode(resp.digest)[i] = "/" -> "_"
                         [] OTHER -> Base64Encode(resp.digest)[i]

\* C13 witness: a ticket for 200x7 of a map image.
C13_Witness ==
    /\ TicketIssued
    /\ req.response.width = 200 /\ req.response.height = 7
    /\ req.args[2] = "map_images"
    /\ SubSeq(req.response.signed, 1, 5) = <<"2", "0", "0", "x", "7">>

\* C15: the signature segment of a ticket URL holds neither '+' nor '/':
\* it is the standard base64 of the digest with every '+' turned into '-'
\* and every '/' into '_', and no other character changed.
C15_SignatureUrlSafe ==
    TicketIssued =>
      LET sig == SignatureSegment(req.response.url)
          b64 == Base64Encode(req.response.digest)
      IN /\ \A i \in 1..Len(sig) : sig[i] \notin {"+", "/"}
         /\ Len(sig) = Len(b64)
         /\ \A i \in 1..Len(b64) :
              /\ b64[i] = "+" => sig[i] = "-"
              /\ b64[i] = "/" => sig[i] = "_"
              /\ b64[i] \notin {"+", "/"} => sig[i] = b64[i]

\* C15 witness: a ticket whose digest has both '+' and '/' in its standard
\* base64, and padding at its end.
C15_Witness ==
    /\ TicketIssued
    /\ \E i, j \in 1..Len(Base64Encode(req.response.digest)) :
         /\ Base64Encode(req.response.digest)[i] = "+"
         /\ Base64Encode(req.response.digest)[j] = "/"
    /\ \E i \in 1..Len(req.response.url) : req.response.url[i] = "_"
    /\ \E i \in 1..Len(req.response.url) : req.response.url[i] = "="

\* Rows other than the all-NULL right side of an unmatched LEFT JOIN row.
RealGrants(rows) == {g \in rows : g # NullGrant}

\* C16: the DELETE and the INSERT of one grant are one atomic transaction:
\* a permission check query of another request that runs while the
\* transaction is open sees the grants of the resource as they were
\* committed before it, never the table with the grant deleted and the new
\* one not yet inserted; a resource with grants before and after is never
\* seen with none.
C16_NoIntermediateStateObserved ==
    /\ req.pc = "tx" => entity_permissions = req.tx.before
    /\ (req.pc = "tx" /\ req.tx.probed)
         => LET id == req.tx.perm.related_id
                before == JoinedGrants(images, req.tx.before, id)
                after == JoinedGrants(images, GrantsAfter(req.tx.before, req.tx.perm), id)
            IN /\ req.tx.seen = before
               /\ (RealGrants(before) # {} /\ RealGrants(after) # {})
                    => RealGrants(req.tx.seen) # {}

\* C16 witness: another request's query ran between the DELETE and the
\* INSERT of a transaction on an image that had a grant.
C16_Witness ==
    /\ req.pc = "tx" /\ req.tx.stage = "deleted" /\ req.tx.probed
    /\ RealGrants(req.tx.seen) # {}
    /\ GrantRow(req.tx.perm) \notin req.tx.before

\* C17: in update_asset, after the primary update went through, a failure
\* of a permission-sync step (malformed permissions payload, get_client,
\* beginning the transaction, DELETE, INSERT, commit) leaves
\* entity_permissions as it was before that transaction and the handler
\* still answers Success(Update).
C17_PermissionSyncFailureNonFatal ==
    (/\ req.ran = "update_asset" /\ req.pc = "done"
     /\ req.cause \in {"permissions_json", "permission_client", "transaction",
                        "permission_sync"})
      => (/\ req.response = IntoResponse(AppSuccess("Image", "updated"))
          /\ req.tx.stage \in {"rolled_back", "not_begun"}
               => entity_permissions = req.tx.before)

\* The two shapes of an entity_permissions row.
RoleShapedRow(g) == g.role_id # NULL /\ g.user_id = NULL /\ g.permission_id = NULL
UserShapedRow(g) == g.role_id = NULL /\ g.user_id # NULL /\ g.permission_id # NULL

C19_CommitReplacesGrants ==
    req.tx.stage = "committed"
      => {g \in entity_permissions : g.related_id = req.tx.perm.related_id}
           = {GrantRow(req.tx.perm)}

\* C20: after delete_asset, bulk_delete_assets or delete_folder deleted an
\* image record, no entity_permissions row has that image's id as its
\* related_id.
C20_DeletedImagesLeaveNoGrants ==
    \A id \in req.deleted : \A g \in entity_permissions : g.related_id # id

\* C21: every request permission_middleware handles ends with an HTTP
\* response: a transport failure of the verification call, a failed policy
\* lookup, a failure to get a store client and a failing resolver query each
\* give a denial or generic-failure response, and the task of the request
\* never panics inside the middleware.
C21_MiddlewareAlwaysResponds ==
    /\ req.mw # "panic"
    /\ (req.endpoint = "crud" /\ req.pc = "done" /\ req.mw = "deny")
         => req.response \in {PlainError, IntoResponse(AppError), IntoResponse(AppAuth)}
    /\ (req.endpoint = "crud" /\ req.pc = "done"
          /\ req.cause \in {"verify_transport", "policy", "policy_body", "client", "query"})
         => (req.mw = "deny" /\ req.response # NoResponse)

\* The handlers that upload an object and insert its images row.
UploadHandlers == {"upload_image", "upload_gateway_entity", "upload"}

\* C22: when an upload handler (upload_image, upload_gateway_entity, the
\* extension upload) inserts an images row, the object it wrote in the same
\* step is stored under assets/{project_id}/{type}/{id}.webp with the
\* project_id, type and id of that row.
C22_ObjectKeyMatchesRow ==
    (req.target \in UploadHandlers /\ req.row # None)
      => req.put = Some(ObjectKey(req.row[1].project_id, req.row[1].type, req.row[1].id))

\* C27: in every upload handler, when put_object went through and the
\* insert of the images row (or, in the gateway upload, the lookup of the
\* project owner) failed, the handler sends a delete_object for exactly the
\* key it uploaded, and when that delete goes through the object is gone.
C27_FailedInsertDeletesUploadedKey ==
    (req.target \in UploadHandlers /\ req.put # None /\ req.row = None)
      => (/\ req.del # None
          /\ req.del[1].key = req.put[1]
          /\ req.del[1].ok => req.put[1] \notin objects)

\* The request in flight was answered by get_thumbnail with a delivery URL.
UrlIssued ==
    /\ req.pc = "done" /\ req.endpoint = "thumbnail"
    /\ req.response.status = 200 /\ req.response.kind = "url"

\* C23: get_thumbnail answers in ticket mode if and only if the query has
\* both width and height; with neither or only one of them it answers in
\* direct mode, with the presigned URL of
\* assets/{project_id}/{image_type}/{image_id}.webp, and computes no HMAC.
C23_TicketModeIffBothDimensions ==
    UrlIssued =>
      /\ req.response.message \in {"ticket", "presigned"}
      /\ req.response.message = "ticket"
           <=> (req.query.width # None /\ req.query.height # None)
      /\ req.response.message = "ticket"
           => (/\ req.response.width = req.query.width[1]
               /\ req.response.height = req.query.height[1])
      /\ req.response.message = "presigned"
           => (/\ req.response.url
                    = <<"presigned", "/", "assets", req.args[1], req.args[2],
                        req.args[3], ".webp">>
               /\ DOMAIN req.response \cap {"digest", "key", "signed"} = {})

\* C23 witness: a query with a width and no height was answered in direct
\* mode.
C23_Witness ==
    /\ UrlIssued /\ req.response.message = "presigned"
    /\ req.query.width # None /\ req.query.height = None

\* C24: get_thumbnail of thumbnail_routes answers with a delivery URL only
\* for a request that passed a credential check: the verification call
\* answered 200, or the X-API-KEY header equals the configured service key.
C24_UrlOnlyAfterCredentialCheck ==
    (UrlIssued /\ req.ran = "get_thumbnail_routes")
      => (\/ req.verifyCalls = 1 /\ req.verifyStatus = 200
          \/ req.apiKey = "service_key")

\* C26: in direct mode the max-age of the cache-control header sent with
\* the presigned URL is not longer than the time the URL stays valid
\* (PRESIGN_DURATION).
C26_CacheHintWithinPresignValidity ==
    (UrlIssued /\ req.response.message = "presigned")
      => (/\ req.response.expires_in = PRESIGN_DURATION
          /\ req.response.cache.seconds <= req.response.expires_in)

\* C28: delete_folder deletes the images rows of a project only if the
\* objects under assets/{project_id} were deleted: when the listing of the
\* objects fails inside recursive_delete, delete_folder answers with an
\* error and the images rows of the project stay.
C28_FolderRowsKeptWhenListingFails ==
    /\ (req.ran = "delete_folder" /\ req.pc = "done" /\ req.cause = "list_objects")
         => (/\ req.response \in {IntoResponse(AppError), ClientError}
             /\ req.deleted = {})
    /\ (req.ran = "delete_folder" /\ req.pc = "done" /\ req.deleted # {})
         => KeysWithPrefix(objects, req.args[2]) = {}

\* C29: delete_asset changes nothing when it answers with an error (no
\* store client, or the DELETE of the row failed): the object
\* assets/{project_id}/{image_type}/{id}.webp has not been removed; and
\* when it answers Success the images row with that id is gone.
C29_DeleteAssetErrorLeavesObject ==
    (req.ran = "delete_asset" /\ req.pc = "done")
      => (/\ req.response \in {IntoResponse(AppError), ClientError}
               => req.gone = {}
          /\ req.response = IntoResponse(AppSuccess("Image", "deleted"))
               => ~\E i \in images : i.id = req.args[3])

\* C25: a request that permission_middleware allowed changes a resource
\* only while the resolver predicate still holds for its caller: an
\* update_asset that changes owner_id, or a delete, that another request
\* commits between the permission query and the handler cannot end in a
\* mutation by a caller who has no access any more.
C25_MutationOnlyWhileAccessHolds ==
    (/\ req.ran \in {"update_asset", "delete_asset"}
     /\ req.mw = "allow"
     /\ req.response \in {IntoResponse(AppSuccess("Image", "updated")),
                          IntoResponse(AppSuccess("Image", "deleted"))})
      => req.held

\* A transaction of the permissions list in hand has failed.
EntryFailed ==
    \/ req.cause \in {"permission_sync", "permission_client", "transaction"}
    \/ req.response = ResultErr

\* C30: the permissions list of one update_asset or insert_permissions
\* call is applied all or nothing: when the transaction of an entry fails,
\* no entry of the list, earlier or later, is committed to
\* entity_permissions.
C30_PermissionsListAllOrNothing ==
    (req.ran \in {"update_asset", "insert_permissions"} /\ EntryFailed)
      => ~req.committed

====
